---- MODULE Spec2Model ----
(***************************************************************************)
(* Model of the NET component (Net.cpp / Net.hpp) on top of the generic    *)
(* mpp::Component<Derived> gateway and belief ledger (Component.hpp).      *)
(*                                                                         *)
(* The program state is kept in one record ("machine state", M) so that    *)
(* every method of the source is a pure operator M -> M that can be        *)
(* composed exactly as the code composes its calls.  The variables of the  *)
(* module are the fields of that record plus history variables.            *)
(*                                                                         *)
(* Text that the code inspects character by character (hardware addresses  *)
(* scanned by sscanf, belief subjects compared by prefix) is a sequence of *)
(* one-character strings; text the code only stores or forwards is a       *)
(* string.                                                                 *)
(***************************************************************************)
EXTENDS Integers, Sequences, FiniteSets, TLC

VARIABLES regs, libnet_, pcap_, committed_, has_sender_, last_sender_,
          running_, udp_fd_, bus_fd_, terminated, net_out, wire, capbuf,
          lib_open, cap_open, n_polls, n_dgrams, last_dgram, repeated,
          acquired, released, udp_rcvbuf, bus_rcvbuf, pc

vars == <<regs, libnet_, pcap_, committed_, has_sender_, last_sender_,
          running_, udp_fd_, bus_fd_, terminated, net_out, wire, capbuf,
          lib_open, cap_open, n_polls, n_dgrams, last_dgram, repeated,
          acquired, released, udp_rcvbuf, bus_rcvbuf, pc>>

-----------------------------------------------------------------------------
(* Bounds of the model *)

\* datagrams received by one instance in one behaviour
MaxDatagrams == 3

\* frames waiting in the capture buffer of the live capture handle
MaxPending == 1

-----------------------------------------------------------------------------
(* Program constants *)

BUS_PORT == 3999
BLS_PORT == 4000
SBA == 5000
ETHERTYPE_IP == 2048
ICMP_ECHO == 8
DefaultSnaplen == 65535
DefaultTimeoutMs == 10
DefaultTtl == 64
DefaultIcmpId == 4660
U8 == 256
U16 == 65536

\* component_name(), as characters
NET_NAME == <<"N", "E", "T">>

\* the subjects Net commits, as characters
SUBJ_TX_DONE == <<"N", "E", "T", ".", "t", "x", "_", "d", "o", "n", "e">>
SUBJ_RX_DONE == <<"N", "E", "T", ".", "r", "x", "_", "d", "o", "n", "e">>

-----------------------------------------------------------------------------
(* Input values *)

MacEmpty == <<>>
MacGood == <<"a", "a", ":", "b", "b", ":", "c", "c", ":",
             "d", "d", ":", "e", "e", ":", "f", "f">>
MacShort == <<"1", ":", "2", ":", "3", ":", "4", ":", "5", ":", "6">>
MacZZ == <<"z", "z", ":", "z", "z", ":", "z", "z", ":",
           "z", "z", ":", "z", "z", ":", "z", "z">>
MacFive == <<"a", "a", ":", "b", "b", ":", "c", "c", ":", "d", "d", ":", "e", "e">>
MacWide == <<"1", "a", "a", ":", "b", "b", ":", "c", "c", ":",
             "d", "d", ":", "e", "e", ":", "f", "f">>
MacTrail == <<"a", "a", ":", "b", "b", ":", "c", "c", ":",
              "d", "d", ":", "e", "e", ":", "f", "f", ":", "0", "0">>

\* devices that exist on the host; opening any other device fails
HostDevices == {"eno1", "lo"}

\* filter expressions the capture library compiles; any other fails
CompilableFilters == {"icmp", "udp"}

\* wire lengths of the frames the network delivers to a live capture
FrameLens == {60, 1500}

Min(a, b) == IF a < b THEN a ELSE b

-----------------------------------------------------------------------------
(* JSON documents: a patch is a function from the keys present to values *)

EmptyPatch == [k \in {} |-> TRUE]

\* j.contains(key)
Contains(j, key) == key \in DOMAIN j

\* mutant: a key that is present counts as true
Value_present(j, key, default) == IF key \in DOMAIN j THEN TRUE ELSE default

\* j.value(key, default)
Value(j, key, default) == IF key \in DOMAIN j THEN j[key] ELSE default

-----------------------------------------------------------------------------
(* Net.hpp: NetRegisters defaults, handles *)

InitRegs ==
  [ sba           |-> SBA,
    libnet_device |-> "eno1",
    pcap_device   |-> "eno1",
    snaplen       |-> DefaultSnaplen,
    promisc       |-> TRUE,
    timeout_ms    |-> DefaultTimeoutMs,
    pcap_filter   |-> "",
    eth_enabled   |-> FALSE,
    eth_src_mac   |-> MacEmpty,
    eth_dst_mac   |-> MacEmpty,
    eth_type      |-> ETHERTYPE_IP,
    ip4_enabled   |-> FALSE,
    ip4_src       |-> "",
    ip4_dst       |-> "",
    ip4_ttl       |-> DefaultTtl,
    icmp4_enabled |-> FALSE,
    icmp4_type    |-> ICMP_ECHO,
    icmp4_code    |-> 0,
    icmp4_id      |-> DefaultIcmpId,
    icmp4_seq     |-> 0,
    icmp4_payload |-> "",
    rx_done       |-> FALSE,
    rx_len        |-> 0,
    rx_caplen     |-> 0,
    tx_done       |-> FALSE,
    last_error    |-> "" ]

\* libnet_ == nullptr
NullLibnet == [live |-> FALSE, device |-> "", ctx |-> <<>>]

\* pcap_ == nullptr
NullPcap == [live |-> FALSE, device |-> "", snaplen |-> 0, promisc |-> FALSE,
             timeout_ms |-> 0, filter |-> ""]

\* the keys apply_snapshot copies into registers
ConfigKeys ==
  { "libnet_device", "pcap_device", "snaplen", "promisc", "timeout_ms",
    "pcap_filter", "eth_enabled", "eth_src_mac", "eth_dst_mac", "eth_type",
    "ip4_enabled", "ip4_src", "ip4_dst", "ip4_ttl", "icmp4_enabled",
    "icmp4_type", "icmp4_code", "icmp4_id", "icmp4_seq", "icmp4_payload" }

\* the boolean keys apply_snapshot reads with j.value(key, false)
TriggerKeys ==
  { "libnet_create", "libnet_destroy", "pcap_create", "pcap_destroy",
    "pcap_set_filter", "read", "tx_fire", "rx_fire", "tick" }

-----------------------------------------------------------------------------
(* The machine state as one record *)

Cur ==
  [ regs         |-> regs,
    libnet_      |-> libnet_,
    pcap_        |-> pcap_,
    committed_   |-> committed_,
    has_sender_  |-> has_sender_,
    last_sender_ |-> last_sender_,
    running_     |-> running_,
    terminated   |-> terminated,
    net_out      |-> net_out,
    wire         |-> wire,
    capbuf       |-> capbuf,
    lib_open     |-> lib_open,
    cap_open     |-> cap_open,
    n_polls      |-> n_polls,
    acquired     |-> acquired ]

-----------------------------------------------------------------------------
(* Component.hpp: transport helpers and the belief ledger *)

\* a socket address; Loopback(port) is 127.0.0.1:port
Loopback(port) == [host |-> "127.0.0.1", port |-> port]

\* sockaddr_in last_sender_{}
NoSender == [host |-> "0.0.0.0", port |-> 0]

\* mutant: rfind without the position bound finds the prefix anywhere
StartsWith_anywhere(s, prefix) ==
  \E i \in 1..Len(s) :
     /\ i + Len(prefix) - 1 <= Len(s)
     /\ SubSeq(s, i, i + Len(prefix) - 1) = prefix

\* std::string::rfind(prefix, 0) == 0
StartsWith(s, prefix) ==
  /\ Len(s) >= Len(prefix)
  /\ SubSeq(s, 1, Len(prefix)) = prefix

\* send_json(j, port): the document is handed to sendto for 127.0.0.1:port
send_json(M, j, port) ==
  [M EXCEPT !.net_out = Append(@, [to |-> Loopback(port), body |-> j])]

\* mutant: the reply is sent to whatever last_sender_ holds
reply_json_unguarded(M, j) ==
  [M EXCEPT !.net_out = Append(@, [to |-> M.last_sender_, body |-> j])]

\* reply_json(j): nothing is sent while no sender is recorded
reply_json(M, j) ==
  IF ~M.has_sender_
    THEN M
    ELSE [M EXCEPT !.net_out = Append(@, [to |-> M.last_sender_, body |-> j])]

\* the value reply_json returns, sendto having accepted the whole payload
reply_json_result(M) == M.has_sender_

\* mutant: the duplicate check tests the polarity for inequality
AlreadyCommitted_inverted(M, subject, polarity) ==
  \E i \in 1..Len(M.committed_) :
     /\ M.committed_[i].subject = subject
     /\ M.committed_[i].polarity # polarity

\* the loop over committed_ in commit
AlreadyCommitted(M, subject, polarity) ==
  \E i \in 1..Len(M.committed_) :
     /\ M.committed_[i].subject = subject
     /\ M.committed_[i].polarity = polarity

\* mutant: the envelope is sent before the duplicate check
commit_send_first(M, subject, polarity, context) ==
  IF ~StartsWith(subject, NET_NAME \o <<".">>)
    THEN M
    ELSE LET belief == [component |-> NET_NAME, subject |-> subject,
                        polarity |-> polarity, context |-> context]
             M1 == send_json(M, [belief |-> belief], BLS_PORT)
         IN IF AlreadyCommitted(M, subject, polarity)
              THEN M1
              ELSE [M1 EXCEPT !.committed_ = Append(@, belief)]

\* commit(subject, polarity, context)
commit(M, subject, polarity, context) ==
  IF ~StartsWith(subject, NET_NAME \o <<".">>)
    THEN M
    ELSE IF AlreadyCommitted(M, subject, polarity)
      THEN M
      ELSE LET belief == [component |-> NET_NAME, subject |-> subject,
                          polarity |-> polarity, context |-> context]
               M1 == [M EXCEPT !.committed_ = Append(@, belief)]
           IN send_json(M1, [belief |-> belief], BLS_PORT)

-----------------------------------------------------------------------------
(* Net.hpp: parse_mac, i.e. sscanf(s, "%x:%x:%x:%x:%x:%x") == 6 *)

HexChars == {"0", "1", "2", "3", "4", "5", "6", "7", "8", "9",
             "a", "b", "c", "d", "e", "f", "A", "B", "C", "D", "E", "F"}

HexVal(c) ==
  CASE c = "0" -> 0 [] c = "1" -> 1 [] c = "2" -> 2 [] c = "3" -> 3
    [] c = "4" -> 4 [] c = "5" -> 5 [] c = "6" -> 6 [] c = "7" -> 7
    [] c = "8" -> 8 [] c = "9" -> 9
    [] c \in {"a", "A"} -> 10 [] c \in {"b", "B"} -> 11
    [] c \in {"c", "C"} -> 12 [] c \in {"d", "D"} -> 13
    [] c \in {"e", "E"} -> 14 [] c \in {"f", "F"} -> 15

\* %x skips leading white space
RECURSIVE SkipSpace(_, _)
SkipSpace(s, i) ==
  IF i <= Len(s) /\ s[i] \in {" ", "\t", "\n"} THEN SkipSpace(s, i + 1) ELSE i

\* the run of hex digits of one %x conversion (the inputs of this model
\* have fewer than eight digits, so the unsigned int never wraps)
RECURSIVE ScanDigits(_, _, _, _)
ScanDigits(s, i, acc, n) ==
  IF i <= Len(s) /\ s[i] \in HexChars
    THEN ScanDigits(s, i + 1, acc * 16 + HexVal(s[i]), n + 1)
    ELSE [val |-> acc, next |-> i, n |-> n]

\* the digits of one %x conversion, from position m; neg: a minus sign
\* preceded them
ScanNumber(s, m, neg) ==
  [ok |-> ScanDigits(s, m, 0, 0).n > 0,
   val |-> ScanDigits(s, m, 0, 0).val,
   neg |-> neg,
   next |-> ScanDigits(s, m, 0, 0).next]

\* an optional 0x or 0X in front of the digits
ScanPrefixed(s, k, neg) ==
  IF /\ k + 2 <= Len(s)
     /\ s[k] = "0"
     /\ s[k + 1] \in {"x", "X"}
     /\ s[k + 2] \in HexChars
    THEN ScanNumber(s, k + 2, neg)
    ELSE ScanNumber(s, k, neg)

\* an optional sign in front of the number
ScanSigned(s, j) ==
  IF j <= Len(s) /\ s[j] \in {"+", "-"}
    THEN ScanPrefixed(s, j + 1, s[j] = "-")
    ELSE ScanPrefixed(s, j, FALSE)

\* one %x conversion starting at position i
ScanHex(s, i) == ScanSigned(s, SkipSpace(s, i))

\* static_cast<uint8_t> of the unsigned int a conversion stored; a leading
\* minus sign stores the two's complement
ToByte(val, neg) == IF neg THEN (U8 - (val % U8)) % U8 ELSE val % U8

\* the conversions sscanf assigns before the first mismatch, each already
\* narrowed to the byte parse_mac keeps: b holds the conversions so far, the
\* next one starts at position i
RECURSIVE ScanFields(_, _, _)

\* after a conversion: the format ends, or a colon must follow
NextField(s, i, b) ==
  IF Len(b) = 6
    THEN b
    ELSE IF i <= Len(s) /\ s[i] = ":" THEN ScanFields(s, i + 1, b) ELSE b

\* the conversion r is stored if it matched
StoreField(s, r, b) ==
  IF ~r.ok THEN b ELSE NextField(s, r.next, Append(b, ToByte(r.val, r.neg)))

ScanFields(s, i, b) == StoreField(s, ScanHex(s, i), b)

\* the result of parse_mac for the conversions b
MacResult(b) ==
  IF Len(b) # 6 THEN [ok |-> FALSE, mac |-> <<>>] ELSE [ok |-> TRUE, mac |-> b]

\* parse_mac(s, mac): ok is the return value, mac the six bytes written
parse_mac(s) == MacResult(ScanFields(s, 1, <<>>))

-----------------------------------------------------------------------------
(* External drivers, as far as Net.cpp depends on their results *)

\* errbuf text of a failed libnet_init / pcap_open_live, libnet_geterror text
LibnetInitError == "libnet_init: no such device"
PcapOpenError == "pcap_open_live: no such device"
LibnetWriteError == "libnet_write: write failed"

\* a uint32 address as its four bytes; 0 is NullAddr
NullAddr == <<0, 0, 0, 0>>

\* libnet_name2addr4(l, name, LIBNET_DONT_RESOLVE); the library returns -1
\* (all bits set) for a name it cannot convert
name2addr4(name) ==
  CASE name = "10.0.0.1" -> <<10, 0, 0, 1>>
    [] name = "10.0.0.2" -> <<10, 0, 0, 2>>
    [] name = "0.0.0.0" -> NullAddr
    [] OTHER -> <<255, 255, 255, 255>>

\* pcap_compile(...) == 0
pcap_compile_ok(filter) == filter \in CompilableFilters

-----------------------------------------------------------------------------
(* Net.cpp *)

\* the handles of acq but h, in the same order
Without(acq, h) == SelectSeq(acq, LAMBDA x : x # h)

\* Net::set_error
set_error(M, msg) == [M EXCEPT !.regs.last_error = msg]

\* Net::serialize_registers
serialize_registers(M) ==
  [ component     |-> "NET",
    sba           |-> M.regs.sba,
    libnet_device |-> M.regs.libnet_device,
    pcap_device   |-> M.regs.pcap_device,
    libnet_live   |-> M.libnet_.live,
    pcap_live     |-> M.pcap_.live,
    tx_done       |-> M.regs.tx_done,
    rx_done       |-> M.regs.rx_done,
    rx_len        |-> M.regs.rx_len,
    rx_caplen     |-> M.regs.rx_caplen,
    last_error    |-> M.regs.last_error ]

\* mutant: a create on a live handle rebinds it to the device register
do_libnet_create_rebinds(M) ==
  IF M.libnet_.live
    THEN IF M.regs.libnet_device \in HostDevices
           THEN [M EXCEPT !.libnet_.device = M.regs.libnet_device]
           ELSE M
    ELSE IF M.regs.libnet_device \in HostDevices
      THEN [M EXCEPT !.libnet_ = [live |-> TRUE,
                                  device |-> M.regs.libnet_device,
                                  ctx |-> <<>>],
                     !.lib_open = @ + 1,
                     !.acquired = Append(@, "libnet_")]
      ELSE set_error(M, LibnetInitError)

\* mutant: no early return for a live handle
do_libnet_create_unguarded(M) ==
  IF M.regs.libnet_device \in HostDevices
    THEN [M EXCEPT !.libnet_ = [live |-> TRUE,
                                device |-> M.regs.libnet_device,
                                ctx |-> <<>>],
                   !.lib_open = @ + 1,
                     !.acquired = Append(@, "libnet_")]
    ELSE set_error(M, LibnetInitError)

\* Net::do_libnet_create
do_libnet_create(M) ==
  IF M.libnet_.live
    THEN M
    ELSE IF M.regs.libnet_device \in HostDevices
      THEN [M EXCEPT !.libnet_ = [live |-> TRUE,
                                  device |-> M.regs.libnet_device,
                                  ctx |-> <<>>],
                     !.lib_open = @ + 1,
                     !.acquired = Append(@, "libnet_")]
      ELSE set_error(M, LibnetInitError)

\* mutant: closing the transmit handle also clears the completion flag
do_libnet_destroy_clears_done(M) ==
  IF ~M.libnet_.live
    THEN M
    ELSE [M EXCEPT !.libnet_ = NullLibnet, !.lib_open = @ - 1,
                   !.acquired = Without(@, "libnet_"),
                   !.regs.tx_done = FALSE]

\* Net::do_libnet_destroy
do_libnet_destroy(M) ==
  IF ~M.libnet_.live
    THEN M
    ELSE [M EXCEPT !.libnet_ = NullLibnet, !.lib_open = @ - 1,
                   !.acquired = Without(@, "libnet_")]

\* mutant: opening the capture handle also installs the stored filter
do_pcap_create_installs_filter(M) ==
  IF M.pcap_.live
    THEN M
    ELSE IF M.regs.pcap_device \in HostDevices
      THEN [M EXCEPT !.pcap_ = [live |-> TRUE,
                                device |-> M.regs.pcap_device,
                                snaplen |-> M.regs.snaplen,
                                promisc |-> M.regs.promisc,
                                timeout_ms |-> M.regs.timeout_ms,
                                filter |-> M.regs.pcap_filter],
                     !.capbuf = <<>>,
                     !.cap_open = @ + 1,
                     !.acquired = Append(@, "pcap_")]
      ELSE set_error(M, PcapOpenError)

\* Net::do_pcap_create
do_pcap_create(M) ==
  IF M.pcap_.live
    THEN M
    ELSE IF M.regs.pcap_device \in HostDevices
      THEN [M EXCEPT !.pcap_ = [live |-> TRUE,
                                device |-> M.regs.pcap_device,
                                snaplen |-> M.regs.snaplen,
                                promisc |-> M.regs.promisc,
                                timeout_ms |-> M.regs.timeout_ms,
                                filter |-> ""],
                     !.capbuf = <<>>,
                     !.cap_open = @ + 1,
                     !.acquired = Append(@, "pcap_")]
      ELSE set_error(M, PcapOpenError)

\* Net::do_pcap_destroy
do_pcap_destroy(M) ==
  IF ~M.pcap_.live
    THEN M
    ELSE [M EXCEPT !.pcap_ = NullPcap, !.capbuf = <<>>, !.cap_open = @ - 1,
                   !.acquired = Without(@, "pcap_")]

\* the "PCAP filter" block of apply_snapshot
set_filter(M, j) ==
  IF Value(j, "pcap_set_filter", FALSE) /\ M.pcap_.live
    THEN IF M.regs.pcap_filter # ""
           THEN IF pcap_compile_ok(M.regs.pcap_filter)
                  THEN [M EXCEPT !.pcap_.filter = M.regs.pcap_filter]
                  ELSE M
           ELSE M
    ELSE M

\* the three libnet_build_* calls of do_tx: each call with ptag 0 adds one
\* protocol block to the context; icmp4_seq is post-incremented
build_headers(M, eth_src, eth_dst, src_ip, dst_ip) ==
  LET r == M.regs
      icmp == [layer |-> "icmpv4_echo",
               hdr |-> <<r.icmp4_type, r.icmp4_code, r.icmp4_id, r.icmp4_seq>>,
               payload |-> r.icmp4_payload]
      ipv4 == [layer |-> "ipv4",
               hdr |-> <<20 + 8 + Len(r.icmp4_payload), r.ip4_ttl, src_ip, dst_ip>>,
               payload |-> ""]
      eth  == [layer |-> "ethernet",
               hdr |-> <<eth_dst, eth_src, r.eth_type>>,
               payload |-> ""]
  IN [M EXCEPT !.libnet_.ctx = @ \o <<icmp, ipv4, eth>>,
               !.regs.icmp4_seq = (@ + 1) % U16]

\* do_tx from libnet_write on, the headers being built in M
tx_write(M, write_ok) ==
  IF ~write_ok
    THEN set_error(M, LibnetWriteError)
    ELSE commit([M EXCEPT !.wire = Append(@, M.libnet_.ctx),
                          !.libnet_.ctx = <<>>,
                          !.regs.tx_done = TRUE],
                SUBJ_TX_DONE, TRUE, EmptyPatch)

\* do_tx from the logical-address check on
tx_addrs(M, eth_src, eth_dst, src_ip, dst_ip, write_ok) ==
  IF src_ip = NullAddr \/ dst_ip = NullAddr
    THEN set_error(M, "invalid IP address")
    ELSE tx_write(build_headers(M, eth_src, eth_dst, src_ip, dst_ip), write_ok)

\* do_tx from the hardware-address check on
tx_macs(M, src, dst, write_ok) ==
  IF ~src.ok \/ ~dst.ok
    THEN set_error(M, "invalid MAC address format")
    ELSE tx_addrs(M, src.mac, dst.mac,
                  name2addr4(M.regs.ip4_src), name2addr4(M.regs.ip4_dst),
                  write_ok)

\* mutant: the three framing flags are not consulted
do_tx_ungated(M, write_ok) ==
  IF ~M.libnet_.live
    THEN M
    ELSE tx_macs(M, parse_mac(M.regs.eth_src_mac),
                 parse_mac(M.regs.eth_dst_mac), write_ok)

\* Net::do_tx; write_ok is the outcome of libnet_write(libnet_) >= 0
do_tx(M, write_ok) ==
  IF ~M.libnet_.live
    THEN M
    ELSE IF ~M.regs.eth_enabled \/ ~M.regs.ip4_enabled \/ ~M.regs.icmp4_enabled
      THEN M
      ELSE tx_macs(M, parse_mac(M.regs.eth_src_mac),
                   parse_mac(M.regs.eth_dst_mac), write_ok)

\* mutant: only rc < 0 returns early, rc == 0 is taken for a frame
rx_poll_rc0(M) ==
  IF M.capbuf = <<>>
    THEN commit([M EXCEPT !.regs.rx_done = TRUE],
                SUBJ_RX_DONE, TRUE,
                [rx_len |-> M.regs.rx_len, rx_caplen |-> M.regs.rx_caplen])
    ELSE commit([M EXCEPT !.capbuf = Tail(@),
                          !.regs.rx_done = TRUE,
                          !.regs.rx_len = Head(M.capbuf).len,
                          !.regs.rx_caplen = Head(M.capbuf).caplen],
                SUBJ_RX_DONE, TRUE,
                [rx_len |-> Head(M.capbuf).len, rx_caplen |-> Head(M.capbuf).caplen])

\* do_rx from the result of pcap_next_ex on: 1 with the oldest pending
\* frame, 0 if none is pending
rx_poll(M) ==
  IF M.capbuf = <<>>
    THEN M
    ELSE commit([M EXCEPT !.capbuf = Tail(@),
                          !.regs.rx_done = TRUE,
                          !.regs.rx_len = Head(M.capbuf).len,
                          !.regs.rx_caplen = Head(M.capbuf).caplen],
                SUBJ_RX_DONE, TRUE,
                [rx_len |-> Head(M.capbuf).len, rx_caplen |-> Head(M.capbuf).caplen])

\* Net::do_rx
do_rx(M) ==
  IF ~M.pcap_.live THEN M ELSE rx_poll([M EXCEPT !.n_polls = @ + 1])

\* mutant: the patch replaces the register set, absent keys fall back to
\* their defaults
apply_config_reset(r, j) ==
  [k \in DOMAIN r |->
     IF k \in ConfigKeys
       THEN IF k \in DOMAIN j THEN j[k] ELSE InitRegs[k]
       ELSE r[k]]

\* the "Configuration" block of apply_snapshot; the unsigned registers take
\* the JSON number converted to their width
apply_config(r, j) ==
  [r EXCEPT
    !.libnet_device = IF Contains(j, "libnet_device") THEN j.libnet_device ELSE @,
    !.pcap_device   = IF Contains(j, "pcap_device") THEN j.pcap_device ELSE @,
    !.snaplen       = IF Contains(j, "snaplen") THEN j.snaplen ELSE @,
    !.promisc       = IF Contains(j, "promisc") THEN j.promisc ELSE @,
    !.timeout_ms    = IF Contains(j, "timeout_ms") THEN j.timeout_ms ELSE @,
    !.pcap_filter   = IF Contains(j, "pcap_filter") THEN j.pcap_filter ELSE @,
    !.eth_enabled   = IF Contains(j, "eth_enabled") THEN j.eth_enabled ELSE @,
    !.eth_src_mac   = IF Contains(j, "eth_src_mac") THEN j.eth_src_mac ELSE @,
    !.eth_dst_mac   = IF Contains(j, "eth_dst_mac") THEN j.eth_dst_mac ELSE @,
    !.eth_type      = IF Contains(j, "eth_type") THEN j.eth_type % U16 ELSE @,
    !.ip4_enabled   = IF Contains(j, "ip4_enabled") THEN j.ip4_enabled ELSE @,
    !.ip4_src       = IF Contains(j, "ip4_src") THEN j.ip4_src ELSE @,
    !.ip4_dst       = IF Contains(j, "ip4_dst") THEN j.ip4_dst ELSE @,
    !.ip4_ttl       = IF Contains(j, "ip4_ttl") THEN j.ip4_ttl % U8 ELSE @,
    !.icmp4_enabled = IF Contains(j, "icmp4_enabled") THEN j.icmp4_enabled ELSE @,
    !.icmp4_type    = IF Contains(j, "icmp4_type") THEN j.icmp4_type % U8 ELSE @,
    !.icmp4_code    = IF Contains(j, "icmp4_code") THEN j.icmp4_code % U8 ELSE @,
    !.icmp4_id      = IF Contains(j, "icmp4_id") THEN j.icmp4_id % U16 ELSE @,
    !.icmp4_seq     = IF Contains(j, "icmp4_seq") THEN j.icmp4_seq % U16 ELSE @,
    !.icmp4_payload = IF Contains(j, "icmp4_payload") THEN j.icmp4_payload ELSE @ ]

\* the "Lifecycle" block of apply_snapshot
apply_lifecycle(M, j) ==
  LET M1 == IF Value(j, "libnet_create", FALSE) THEN do_libnet_create(M) ELSE M
      M2 == IF Value(j, "libnet_destroy", FALSE) THEN do_libnet_destroy(M1) ELSE M1
      M3 == IF Value(j, "pcap_create", FALSE) THEN do_pcap_create(M2) ELSE M2
      M4 == IF Value(j, "pcap_destroy", FALSE) THEN do_pcap_destroy(M3) ELSE M3
  IN M4

\* the read block of apply_snapshot
apply_read(M, j) ==
  IF Value(j, "read", FALSE) THEN reply_json(M, serialize_registers(M)) ELSE M

\* mutant: tx_done is not reset before do_tx
fire_tx_no_reset(M, j, write_ok) ==
  IF Value(j, "tx_fire", FALSE) THEN do_tx(M, write_ok) ELSE M

\* the tx_fire block of apply_snapshot
fire_tx(M, j, write_ok) ==
  IF Value(j, "tx_fire", FALSE)
    THEN do_tx([M EXCEPT !.regs.tx_done = FALSE], write_ok)
    ELSE M

\* the rx_fire block of apply_snapshot
fire_rx(M, j) ==
  IF Value(j, "rx_fire", FALSE)
    THEN do_rx([M EXCEPT !.regs.rx_done = FALSE])
    ELSE M

\* the tick block of apply_snapshot
fire_tick(M, j) ==
  IF Value(j, "tick", FALSE) THEN do_rx(M) ELSE M

\* mutant: the read reply is produced after the fire actions
apply_snapshot_read_last(M, j, write_ok) ==
  LET M1 == [M EXCEPT !.regs = apply_config(@, j)]
      M2 == apply_lifecycle(M1, j)
      M3 == set_filter(M2, j)
      M5 == fire_tx(M3, j, write_ok)
      M6 == fire_rx(M5, j)
      M7 == fire_tick(M6, j)
  IN apply_read(M7, j)

\* Net::apply_snapshot
apply_snapshot(M, j, write_ok) ==
  LET M1 == [M EXCEPT !.regs = apply_config(@, j)]
      M2 == apply_lifecycle(M1, j)
      M3 == set_filter(M2, j)
      M4 == apply_read(M3, j)
      M5 == fire_tx(M4, j, write_ok)
      M6 == fire_rx(M5, j)
      M7 == fire_tick(M6, j)
  IN M7

\* Net::on_message
on_message(M, j) == M

\* the recognized keys in the order apply_snapshot reads them
KeyOrder ==
  << "libnet_device", "pcap_device", "snaplen", "promisc", "timeout_ms",
     "pcap_filter", "eth_enabled", "eth_src_mac", "eth_dst_mac", "eth_type",
     "ip4_enabled", "ip4_src", "ip4_dst", "ip4_ttl", "icmp4_enabled",
     "icmp4_type", "icmp4_code", "icmp4_id", "icmp4_seq", "icmp4_payload",
     "libnet_create", "libnet_destroy", "pcap_create", "pcap_destroy",
     "pcap_set_filter", "read", "tx_fire", "rx_fire", "tick" >>

\* a conversion in apply_snapshot throws json::type_error: value() on a
\* document that is not an object, or a member of a type the register or
\* flag cannot take
Thrown(d) == d.type # "object" \/ d.mistyped # {}

\* the position in KeyOrder at which the first conversion throws
FirstThrow(d) ==
  CHOOSE i \in 1..Len(KeyOrder) :
     /\ KeyOrder[i] \in d.mistyped
     /\ \A n \in 1..(i - 1) : KeyOrder[n] \notin d.mistyped

\* the members apply_snapshot has read when the exception leaves it: none of
\* a document that is not an object (contains() is false, the first value()
\* throws), otherwise the recognized members in front of the first mistyped
\* one
Reached(d) ==
  IF d.type # "object"
    THEN EmptyPatch
    ELSE [k \in DOMAIN d.doc \cap { KeyOrder[n] : n \in 1..(FirstThrow(d) - 1) }
            |-> d.doc[k]]

\* an exception that no handler catches: run() and main() have no try
\* block, so the process ends in std::terminate
std_terminate(M) == [M EXCEPT !.terminated = TRUE]

\* mutant: the sender is remembered whatever the endpoint
remember_sender_always(M, allow_reply, d) ==
  [M EXCEPT !.last_sender_ = d.from, !.has_sender_ = TRUE]

\* poll_socket: the sender is remembered if the endpoint allows replies
remember_sender(M, allow_reply, d) ==
  IF allow_reply
    THEN [M EXCEPT !.last_sender_ = d.from, !.has_sender_ = TRUE]
    ELSE M

\* poll_socket from json::parse on, the sender being handled in M
parse_and_apply(M, d, write_ok) ==
  IF ~d.ok
    THEN M
    ELSE IF Thrown(d)
      THEN std_terminate(apply_snapshot(M, Reached(d), write_ok))
      ELSE on_message(apply_snapshot(M, d.doc, write_ok), d.doc)

\* Component::poll_socket(fd, allow_reply) when recvfrom returned datagram d
poll_socket(M, allow_reply, d, write_ok) ==
  parse_and_apply(remember_sender(M, allow_reply, d), d, write_ok)


-----------------------------------------------------------------------------
(* Inputs: the datagrams that arrive on the private endpoint *)

\* a complete, valid transmit configuration
TxGood ==
  [ eth_enabled |-> TRUE, ip4_enabled |-> TRUE, icmp4_enabled |-> TRUE,
    eth_src_mac |-> MacGood, eth_dst_mac |-> MacShort,
    ip4_src |-> "10.0.0.1", ip4_dst |-> "10.0.0.2" ]

\* header fields, some wider than their registers
HdrParams ==
  [ eth_type |-> 34525, ip4_ttl |-> 300, icmp4_type |-> 0, icmp4_code |-> 1,
    icmp4_id |-> 65543, icmp4_seq |-> 65535, icmp4_payload |-> "ping" ]

\* capture parameters
PcapParams ==
  [ pcap_device |-> "lo", snaplen |-> 64, promisc |-> FALSE,
    timeout_ms |-> 0, pcap_filter |-> "icmp" ]

\* patches that carry configuration (or unrecognized) keys only
CfgParts ==
  { EmptyPatch, [bogus |-> TRUE, verb |-> "PUT"], TxGood, HdrParams, PcapParams,
    [libnet_device |-> "nodev0"], [libnet_device |-> "lo"],
    [pcap_device |-> "nodev0"], [pcap_filter |-> "(("],
    [eth_enabled |-> FALSE], [ip4_enabled |-> FALSE], [icmp4_enabled |-> FALSE],
    [eth_src_mac |-> MacZZ], [eth_dst_mac |-> MacFive],
    [eth_src_mac |-> MacWide], [eth_dst_mac |-> MacTrail],
    [ip4_src |-> "0.0.0.0"], [ip4_dst |-> "not-an-ip"] }

\* patches that carry trigger flags only
FlagParts ==
  { [libnet_create |-> TRUE], [libnet_destroy |-> TRUE],
    [pcap_create |-> TRUE], [pcap_destroy |-> TRUE],
    [pcap_set_filter |-> TRUE], [read |-> TRUE],
    [tx_fire |-> TRUE], [rx_fire |-> TRUE], [tick |-> TRUE],
    [tx_fire |-> FALSE, rx_fire |-> FALSE],
    [libnet_create |-> TRUE, libnet_destroy |-> TRUE],
    [libnet_destroy |-> TRUE, tx_fire |-> TRUE],
    [pcap_create |-> TRUE, rx_fire |-> TRUE],
    [pcap_create |-> TRUE, pcap_set_filter |-> TRUE],
    [read |-> TRUE, tx_fire |-> TRUE],
    [read |-> TRUE, rx_fire |-> TRUE],
    [tx_fire |-> TRUE, rx_fire |-> TRUE] }

\* configuration and triggers in one patch
ComboCfg == { TxGood, [eth_enabled |-> FALSE], [eth_src_mac |-> MacWide] }
ComboFlags == { [libnet_create |-> TRUE, read |-> TRUE, tx_fire |-> TRUE] }

Patches == CfgParts \cup FlagParts \cup { c @@ f : c \in ComboCfg, f \in ComboFlags }

SenderA == [host |-> "127.0.0.1", port |-> 40001]

\* a datagram whose payload is the JSON object p, every recognized member
\* of the type apply_snapshot converts it to
WellFormed(from, to, p) ==
  [from |-> from, to |-> to, ok |-> TRUE, type |-> "object",
   mistyped |-> {}, doc |-> p]

\* a datagram whose payload is not JSON
Garbage(from, to) ==
  [from |-> from, to |-> to, ok |-> FALSE, type |-> "none",
   mistyped |-> {}, doc |-> EmptyPatch]

\* a datagram: its sender, the port it was sent to, whether its payload
\* parses as JSON, the type of the parsed document, the members of a type
\* apply_snapshot cannot convert, the members
Datagrams ==
  { WellFormed(SenderA, SBA, p) : p \in Patches } \cup { Garbage(SenderA, SBA) }

NoDatagram == Garbage(NoSender, 0)

\* libnet_write can fail only when a patch fires a transmission
WriteOutcomes(d) ==
  IF d.ok /\ Value(d.doc, "tx_fire", FALSE) THEN BOOLEAN ELSE {TRUE}

-----------------------------------------------------------------------------
(* State machine *)

\* the state after Net::Net(sba): setup_udp and setup_bus each clear
\* running_ when make_socket fails
Constructed(udp_ok, bus_ok) ==
  /\ regs = InitRegs
  /\ libnet_ = NullLibnet
  /\ pcap_ = NullPcap
  /\ committed_ = <<>>
  /\ has_sender_ = FALSE
  /\ last_sender_ = NoSender
  /\ running_ = (udp_ok /\ bus_ok)
  /\ udp_fd_ = (IF udp_ok THEN 3 ELSE -1)
  /\ bus_fd_ = (IF bus_ok THEN 4 ELSE -1)
  /\ terminated = FALSE
  /\ net_out = <<>>
  /\ wire = <<>>
  /\ capbuf = <<>>
  /\ lib_open = 0
  /\ cap_open = 0
  /\ n_polls = 0
  /\ n_dgrams = 0
  /\ last_dgram = NoDatagram
  /\ repeated = FALSE
  /\ acquired = <<>>
  /\ released = <<>>
  /\ udp_rcvbuf = <<>>
  /\ bus_rcvbuf = <<>>
  /\ pc = "private"

\* the state after Net::Net(sba), both endpoints bound
Init == Constructed(TRUE, TRUE)

\* the variables take the fields of machine state M
Becomes(M) ==
  /\ regs' = M.regs
  /\ libnet_' = M.libnet_
  /\ pcap_' = M.pcap_
  /\ committed_' = M.committed_
  /\ has_sender_' = M.has_sender_
  /\ last_sender_' = M.last_sender_
  /\ running_' = M.running_
  /\ terminated' = M.terminated
  /\ net_out' = M.net_out
  /\ wire' = M.wire
  /\ capbuf' = M.capbuf
  /\ lib_open' = M.lib_open
  /\ cap_open' = M.cap_open
  /\ n_polls' = M.n_polls
  /\ acquired' = M.acquired

\* one iteration of Component::run in which the private endpoint holds d
PollPrivate(d, write_ok) ==
  /\ running_ /\ ~terminated
  /\ n_dgrams < MaxDatagrams
  /\ Becomes(poll_socket(Cur, TRUE, d, write_ok))
  /\ n_dgrams' = n_dgrams + 1
  /\ last_dgram' = d
  /\ repeated' = (n_dgrams > 0 /\ d = last_dgram)
  /\ UNCHANGED <<udp_fd_, bus_fd_, released, udp_rcvbuf, bus_rcvbuf, pc>>

\* the network delivers a frame of wire length len to the live capture
\* handle, which keeps at most the snapshot length it was opened with
FrameArrives(len) ==
  /\ pcap_.live /\ ~terminated
  /\ Len(capbuf) < MaxPending
  /\ capbuf' = Append(capbuf, [len |-> len, caplen |-> Min(len, pcap_.snaplen)])
  /\ UNCHANGED <<regs, libnet_, pcap_, committed_, has_sender_, last_sender_,
                 running_, udp_fd_, bus_fd_, terminated, net_out, wire,
                 lib_open, cap_open, n_polls, n_dgrams, last_dgram, repeated,
                 acquired, released, udp_rcvbuf, bus_rcvbuf, pc>>

Next ==
  \/ \E d \in Datagrams : \E write_ok \in WriteOutcomes(d) : PollPrivate(d, write_ok)
  \/ \E len \in FrameLens : FrameArrives(len)

Spec == Init /\ [][Next]_vars

-----------------------------------------------------------------------------
(* The gateway: both endpoints, several senders, malformed documents *)

SenderB == [host |-> "127.0.0.1", port |-> 40002]

\* another component, sending to the shared bus port
BusPeer == [host |-> "127.0.0.1", port |-> 5001]

\* configure, create the transmit handle, read and fire in one patch
TxOneShot == TxGood @@ [libnet_create |-> TRUE, read |-> TRUE, tx_fire |-> TRUE]

\* a document that is valid JSON but not an object, such as [1,2] or 7
NotAnObject(from, to, type) ==
  [from |-> from, to |-> to, ok |-> TRUE, type |-> type,
   mistyped |-> {}, doc |-> EmptyPatch]

\* an object some of whose recognized members have a type that
\* apply_snapshot cannot convert
Mistyped(from, to, p, keys) ==
  [from |-> from, to |-> to, ok |-> TRUE, type |-> "object",
   mistyped |-> keys, doc |-> p]

\* datagrams sent to the private port
PrivateDatagrams ==
  { WellFormed(SenderA, SBA, [read |-> TRUE]),
    WellFormed(SenderA, SBA, TxOneShot),
    WellFormed(SenderA, SBA, [pcap_create |-> TRUE, rx_fire |-> TRUE]),
    Garbage(SenderA, SBA),
    NotAnObject(SenderA, SBA, "array"),
    Mistyped(SenderA, SBA, [pcap_device |-> "lo", snaplen |-> "big"], {"snaplen"}),
    Mistyped(SenderA, SBA, [libnet_create |-> TRUE, read |-> "yes"], {"read"}),
    WellFormed(SenderB, SBA, [read |-> TRUE]),
    Garbage(SenderB, SBA) }

\* datagrams sent to the shared bus port
BusDatagrams ==
  { WellFormed(BusPeer, BUS_PORT, [read |-> TRUE]),
    WellFormed(BusPeer, BUS_PORT, TxOneShot),
    WellFormed(BusPeer, BUS_PORT, [pcap_create |-> TRUE, rx_fire |-> TRUE]),
    WellFormed(BusPeer, BUS_PORT, [snaplen |-> 64]),
    Garbage(BusPeer, BUS_PORT),
    NotAnObject(BusPeer, BUS_PORT, "number") }

\* the state after Net::Net(sba), whatever the two binds returned
InitGateway == \E udp_ok, bus_ok \in BOOLEAN : Constructed(udp_ok, bus_ok)

\* one iteration of Component::run in which the bus endpoint holds d
PollBus(d, write_ok) ==
  /\ running_ /\ ~terminated
  /\ bus_fd_ >= 0
  /\ n_dgrams < MaxDatagrams
  /\ Becomes(poll_socket(Cur, FALSE, d, write_ok))
  /\ n_dgrams' = n_dgrams + 1
  /\ last_dgram' = d
  /\ repeated' = (n_dgrams > 0 /\ d = last_dgram)
  /\ UNCHANGED <<udp_fd_, bus_fd_, released, udp_rcvbuf, bus_rcvbuf, pc>>

NextGateway ==
  \/ \E d \in PrivateDatagrams : \E write_ok \in WriteOutcomes(d) : PollPrivate(d, write_ok)
  \/ \E d \in BusDatagrams : \E write_ok \in WriteOutcomes(d) : PollBus(d, write_ok)
  \/ \E len \in FrameLens : FrameArrives(len)

SpecGateway == InitGateway /\ [][NextGateway]_vars

-----------------------------------------------------------------------------
(* The belief ledger on its own: commit called with arbitrary arguments *)

SUBJ_STARTED == <<"N", "E", "T", ".", "u", "p">>
SUBJ_OTHER == <<"O", "T", "H", "E", "R", ".", "s", "u", "b", "j", "e", "c", "t">>
SUBJ_NO_DOT == <<"N", "E", "T">>
SUBJ_LONGER_NAME == <<"N", "E", "T", "X", ".", "u", "p">>
SUBJ_LOWER == <<"n", "e", "t", ".", "u", "p">>
SUBJ_INFIX == <<"X", ".", "N", "E", "T", ".", "u", "p">>

Subjects ==
  { SUBJ_TX_DONE, SUBJ_STARTED, SUBJ_OTHER, SUBJ_NO_DOT,
    SUBJ_LONGER_NAME, SUBJ_LOWER, SUBJ_INFIX, <<>> }

Contexts == { EmptyPatch, [rx_len |-> 60, rx_caplen |-> 60] }

\* a call commit(subject, polarity, context) issued by the component
CommitCall(subject, polarity, context) ==
  /\ running_
  /\ Becomes(commit(Cur, subject, polarity, context))
  /\ last_dgram' = [from |-> NoSender, ok |-> TRUE,
                    doc |-> [subject |-> subject, polarity |-> polarity]]
  /\ UNCHANGED <<n_dgrams, repeated, udp_fd_, bus_fd_,
                 released, udp_rcvbuf, bus_rcvbuf, pc>>

NextLedger ==
  \E subject \in Subjects, polarity \in BOOLEAN, context \in Contexts :
     CommitCall(subject, polarity, context)

SpecLedger == Init /\ [][NextLedger]_vars

-----------------------------------------------------------------------------
(* The end of the instance: Net::~Net, then Component::~Component *)

\* Net::~Net
dtor_Net(M) == do_libnet_destroy(do_pcap_destroy(M))

\* Component::~Component; close() leaves the descriptor members as they are
dtor_Component(M) == [M EXCEPT !.running_ = FALSE]

\* the close() calls of Component::~Component, in order
closed_fds ==
  (IF udp_fd_ >= 0 THEN <<"udp_fd_">> ELSE <<>>)
    \o (IF bus_fd_ >= 0 THEN <<"bus_fd_">> ELSE <<>>)

\* the handles held in state A and no longer in state B
ClosedBetween(A, B) ==
  SelectSeq(A.acquired,
            LAMBDA h : \A i \in 1..Len(B.acquired) : B.acquired[i] # h)

\* the owner destroys the instance: the body of Net::~Net runs statement by
\* statement, then the base destructor; released records what is closed
Destroy ==
  /\ released = <<>>
  /\ ~terminated
  /\ Becomes(dtor_Component(dtor_Net(Cur)))
  /\ released' = ClosedBetween(Cur, do_pcap_destroy(Cur))
                   \o ClosedBetween(do_pcap_destroy(Cur), dtor_Net(Cur))
                   \o closed_fds
  /\ UNCHANGED <<udp_fd_, bus_fd_, n_dgrams, last_dgram, repeated,
                 udp_rcvbuf, bus_rcvbuf, pc>>

\* patches that open and close the two driver handles
LifetimeDatagrams ==
  { WellFormed(SenderA, SBA, p) :
      p \in { [libnet_create |-> TRUE], [pcap_create |-> TRUE],
              [libnet_destroy |-> TRUE], [pcap_destroy |-> TRUE],
              [libnet_create |-> TRUE, pcap_create |-> TRUE],
              [libnet_device |-> "nodev0"], [pcap_device |-> "lo"],
              TxOneShot, [rx_fire |-> TRUE] } }

NextLifetime ==
  \/ \E d \in LifetimeDatagrams : \E write_ok \in WriteOutcomes(d) : PollPrivate(d, write_ok)
  \/ \E len \in FrameLens : FrameArrives(len)
  \/ Destroy

SpecLifetime == Init /\ [][NextLifetime]_vars

-----------------------------------------------------------------------------
(* The run loop, statement by statement, over the receive queues of the
   two endpoints *)

\* the publish period Net::Net passes to Component
publish_period_ms_ == 0

\* Component::publish_snapshot, which Net does not override
publish_snapshot(M) == M

\* mutant: no test of the period, and the registers go to the bus
maybe_publish_unconditional(M) ==
  send_json(M, serialize_registers(M), BUS_PORT)

\* Component::maybe_publish
maybe_publish(M) ==
  IF publish_period_ms_ = 0 THEN M ELSE publish_snapshot(M)

\* a datagram with no payload: recvfrom returns 0
EmptyDatagram(from, to) ==
  [from |-> from, to |-> to, ok |-> FALSE, type |-> "empty",
   mistyped |-> {}, doc |-> EmptyPatch]

\* mutant: recvfrom hands over the newest queued datagram
recvfrom_newest(buf) ==
  IF buf = <<>>
    THEN [len |-> -1, dgram |-> NoDatagram, rest |-> buf]
    ELSE [len |-> IF buf[Len(buf)].type = "empty" THEN 0 ELSE 1,
          dgram |-> buf[Len(buf)],
          rest |-> SubSeq(buf, 1, Len(buf) - 1)]

\* recvfrom on a non-blocking socket whose receive queue is buf: -1 when
\* nothing is queued, else the oldest datagram, which leaves the queue
recvfrom(buf) ==
  IF buf = <<>>
    THEN [len |-> -1, dgram |-> NoDatagram, rest |-> buf]
    ELSE [len |-> IF Head(buf).type = "empty" THEN 0 ELSE 1,
          dgram |-> Head(buf),
          rest |-> Tail(buf)]

\* Component::poll_socket on the result r of its recvfrom
poll_received(M, allow_reply, r, write_ok) ==
  IF r.len <= 0 THEN M ELSE poll_socket(M, allow_reply, r.dgram, write_ok)

\* what the statement did with the result r of recvfrom: the datagram count
\* and the datagram taken last
Took(r) ==
  /\ n_dgrams' = (IF r.len >= 0 THEN n_dgrams + 1 ELSE n_dgrams)
  /\ last_dgram' = (IF r.len >= 0 THEN r.dgram ELSE last_dgram)
  /\ repeated' = (IF r.len >= 0 THEN (n_dgrams > 0 /\ r.dgram = last_dgram)
                                ELSE repeated)

\* datagrams sent to the private port while the loop runs
LoopPrivateDatagrams ==
  { WellFormed(SenderA, SBA, [read |-> TRUE]),
    WellFormed(SenderA, SBA, TxOneShot),
    EmptyDatagram(SenderA, SBA),
    Mistyped(SenderA, SBA, [libnet_create |-> TRUE, read |-> "yes"], {"read"}) }

\* datagrams sent to the shared bus port while the loop runs
LoopBusDatagrams ==
  { WellFormed(BusPeer, BUS_PORT, TxOneShot),
    WellFormed(BusPeer, BUS_PORT, [pcap_create |-> TRUE, rx_fire |-> TRUE]) }

\* the kernel queues datagram d on the endpoint it was sent to
Arrives(d) ==
  /\ ~terminated
  /\ released = <<>>
  /\ n_dgrams + Len(udp_rcvbuf) + Len(bus_rcvbuf) < MaxDatagrams
  /\ IF d.to = SBA
       THEN udp_fd_ >= 0 /\ udp_rcvbuf' = Append(udp_rcvbuf, d)
                         /\ UNCHANGED bus_rcvbuf
       ELSE bus_fd_ >= 0 /\ bus_rcvbuf' = Append(bus_rcvbuf, d)
                         /\ UNCHANGED udp_rcvbuf
  /\ UNCHANGED <<regs, libnet_, pcap_, committed_, has_sender_, last_sender_,
                 running_, udp_fd_, bus_fd_, terminated, net_out, wire, capbuf,
                 lib_open, cap_open, n_polls, n_dgrams, last_dgram, repeated,
                 acquired, released, pc>>

\* while (running_) { poll_socket(udp_fd_, true);
RunPrivate(write_ok) ==
  /\ pc = "private"
  /\ running_ /\ ~terminated
  /\ Becomes(poll_received(Cur, TRUE, recvfrom(udp_rcvbuf), write_ok))
  /\ Took(recvfrom(udp_rcvbuf))
  /\ udp_rcvbuf' = recvfrom(udp_rcvbuf).rest
  /\ pc' = "bus"
  /\ UNCHANGED <<udp_fd_, bus_fd_, released, bus_rcvbuf>>

\* if (bus_fd_ >= 0) poll_socket(bus_fd_, false);
RunBus(write_ok) ==
  /\ pc = "bus"
  /\ ~terminated
  /\ IF bus_fd_ >= 0
       THEN /\ Becomes(poll_received(Cur, FALSE, recvfrom(bus_rcvbuf), write_ok))
            /\ Took(recvfrom(bus_rcvbuf))
            /\ bus_rcvbuf' = recvfrom(bus_rcvbuf).rest
       ELSE /\ Becomes(Cur)
            /\ UNCHANGED <<n_dgrams, last_dgram, repeated, bus_rcvbuf>>
  /\ pc' = "publish"
  /\ UNCHANGED <<udp_fd_, bus_fd_, released, udp_rcvbuf>>

\* maybe_publish(); usleep(1000); }
RunPublish ==
  /\ pc = "publish"
  /\ ~terminated
  /\ Becomes(maybe_publish(Cur))
  /\ pc' = "private"
  /\ UNCHANGED <<udp_fd_, bus_fd_, released, udp_rcvbuf, bus_rcvbuf,
                 n_dgrams, last_dgram, repeated>>

\* libnet_write can fail only when the datagram at the head of buf fires
WriteOutcomesAt(buf) ==
  IF buf = <<>> THEN {TRUE} ELSE WriteOutcomes(Head(buf))

\* one statement of the body of Component::run
RunLoop ==
  \/ \E write_ok \in WriteOutcomesAt(udp_rcvbuf) : RunPrivate(write_ok)
  \/ \E write_ok \in WriteOutcomesAt(bus_rcvbuf) : RunBus(write_ok)
  \/ RunPublish

NextLoop ==
  \/ \E d \in LoopPrivateDatagrams \cup LoopBusDatagrams : Arrives(d)
  \/ RunLoop

\* the statement that follows statement p in the body of the run loop
NextPc(p) ==
  CASE p = "private" -> "bus"
    [] p = "bus" -> "publish"
    [] OTHER -> "private"

\* the loop moves on to its next statement: what a RunLoop step does to pc,
\* under the guards of RunLoop
LoopAdvances ==
  /\ ~terminated
  /\ pc = "private" => running_
  /\ pc' = NextPc(pc)

\* the loop is the only thread, recvfrom is non-blocking and usleep returns:
\* the next statement of the loop is always executed
SpecLoop == Init /\ [][NextLoop]_vars /\ WF_pc(LoopAdvances)

-----------------------------------------------------------------------------
(* Vocabulary of the properties *)

\* a step that handled one datagram of the private endpoint
Handled == n_dgrams' = n_dgrams + 1

\* the document of the datagram handled last
Doc == last_dgram.doc

\* the trigger flags a patch carries with the value true
TrueFlags(p) == { k \in TriggerKeys : k \in DOMAIN p /\ p[k] = TRUE }

\* the subject begins with the four characters N E T .
HasNetPrefix(subject) ==
  /\ Len(subject) >= 4
  /\ subject[1] = "N" /\ subject[2] = "E" /\ subject[3] = "T" /\ subject[4] = "."

\* positions of out that hold a belief envelope
BeliefIdx(out) == { i \in 1..Len(out) : "belief" \in DOMAIN out[i].body }

\* positions of out that hold the belief envelope (subject, polarity)
BeliefIdxOf(out, subject, polarity) ==
  { i \in BeliefIdx(out) : /\ out[i].body.belief.subject = subject
                           /\ out[i].body.belief.polarity = polarity }

\* positions of the ledger that hold (subject, polarity)
LedgerIdxOf(ledger, subject, polarity) ==
  { i \in 1..Len(ledger) : /\ ledger[i].subject = subject
                           /\ ledger[i].polarity = polarity }

\* the beliefs of the belief envelopes of out, in sending order
RECURSIVE BeliefsSent(_)
BeliefsSent(out) ==
  IF out = <<>>
    THEN <<>>
    ELSE IF "belief" \in DOMAIN Head(out).body
      THEN <<Head(out).body.belief>> \o BeliefsSent(Tail(out))
      ELSE BeliefsSent(Tail(out))

\* what the step appended to net_out
NewOut == SubSeq(net_out', Len(net_out) + 1, Len(net_out'))

\* the step wrote one frame to the wire
Transmitted == Len(wire') = Len(wire) + 1

-----------------------------------------------------------------------------
(* C1 *)

\* C1: belief monotonicity.  After every step the ledger holds each
\* (subject, polarity) pair at most once; a step whose tx_fire transmitted a
\* frame leaves tx_done true and exactly one NET.tx_done=true entry and
\* exactly one NET.tx_done=true envelope, and when that entry existed before
\* the step it is the same entry and no NET.tx_done envelope is sent.
C1_BeliefMonotonicity ==
  [][ /\ \A i, k \in 1..Len(committed_') :
           (/\ committed_'[i].subject = committed_'[k].subject
            /\ committed_'[i].polarity = committed_'[k].polarity) => i = k
      /\ Transmitted =>
           /\ regs'.tx_done = TRUE
           /\ Cardinality(LedgerIdxOf(committed_', SUBJ_TX_DONE, TRUE)) = 1
           /\ Cardinality(BeliefIdxOf(net_out', SUBJ_TX_DONE, TRUE)) = 1
      /\ (Transmitted /\ LedgerIdxOf(committed_, SUBJ_TX_DONE, TRUE) # {}) =>
           /\ LedgerIdxOf(committed_', SUBJ_TX_DONE, TRUE)
                = LedgerIdxOf(committed_, SUBJ_TX_DONE, TRUE)
           /\ BeliefIdxOf(NewOut, SUBJ_TX_DONE, TRUE) = {}
    ]_vars

\* two frames were transmitted and one NET.tx_done=true envelope was sent
C1_Witness ==
  /\ Len(wire) >= 2
  /\ regs.tx_done
  /\ Cardinality(BeliefIdxOf(net_out, SUBJ_TX_DONE, TRUE)) = 1

-----------------------------------------------------------------------------
(* C2 *)

\* C2: ownership enforcement.  A commit whose subject does not begin with
\* "NET." leaves the ledger and the transport untouched, and every ledger
\* entry has component NET and a subject that begins with "NET.".
C2_Ownership ==
  [][ /\ ~HasNetPrefix(last_dgram'.doc.subject) =>
           /\ committed_' = committed_
           /\ net_out' = net_out
      /\ \A i \in 1..Len(committed_') :
           /\ committed_'[i].component = <<"N", "E", "T">>
           /\ HasNetPrefix(committed_'[i].subject)
    ]_vars

\* a foreign subject was offered to a ledger that already holds entries
C2_Witness ==
  /\ last_dgram.ok
  /\ "subject" \in DOMAIN last_dgram.doc
  /\ last_dgram.doc.subject = SUBJ_OTHER
  /\ Len(committed_) >= 2
  /\ Len(net_out) = Len(committed_)

-----------------------------------------------------------------------------
(* C3 *)

\* C3: at-most-once emission.  In every step the belief envelopes sent are
\* exactly the entries the step appended to the ledger, in order, each
\* addressed to port 4000; the beliefs handed to the transport so far are
\* the ledger, and the old ledger is a prefix of the new one.
C3_AtMostOnceEmission ==
  [][ /\ Len(committed_') >= Len(committed_)
      /\ SubSeq(committed_', 1, Len(committed_)) = committed_
      /\ BeliefsSent(NewOut) = SubSeq(committed_', Len(committed_) + 1, Len(committed_'))
      /\ BeliefsSent(net_out') = committed_'
      /\ Cardinality(BeliefIdx(net_out')) = Len(committed_')
      /\ \A i \in BeliefIdx(net_out') : net_out'[i].to = [host |-> "127.0.0.1", port |-> 4000]
    ]_vars

\* both beliefs of the component were accepted and sent once each
C3_Witness ==
  /\ Len(committed_) = 2
  /\ Cardinality(BeliefIdx(net_out)) = 2
  /\ Len(wire) >= 1
  /\ regs.rx_done

-----------------------------------------------------------------------------
(* C4 *)

\* the width of the unsigned register behind a key, 0 for the other registers
WidthOf(k) ==
  CASE k \in {"ip4_ttl", "icmp4_type", "icmp4_code"} -> 256
    [] k \in {"eth_type", "icmp4_id", "icmp4_seq"} -> 65536
    [] OTHER -> 0

\* the value a register takes from patch value v
Stored(k, v) == IF WidthOf(k) = 0 THEN v ELSE v % WidthOf(k)

\* the value of register k once the configuration keys of p are copied
Configured(k, p) == IF k \in DOMAIN p THEN Stored(k, p[k]) ELSE regs[k]

\* the step added protocol headers to the transmit context
BuiltFrame == Transmitted \/ Len(libnet_'.ctx) > Len(libnet_.ctx)

\* everything but the remembered sender is as before
NothingChanged ==
  UNCHANGED <<regs, libnet_, pcap_, committed_, net_out, wire, capbuf,
              lib_open, cap_open, n_polls, running_>>

\* C4 as stated: after a patch every configuration register whose key is
\* absent from the patch has the value it had before.
C4_AbsentKeysKept ==
  [][ (Handled /\ last_dgram'.ok) =>
        \A k \in ConfigKeys : k \notin DOMAIN Doc' => regs'[k] = regs[k]
    ]_vars

\* C4 (amended): after a patch every configuration register other than
\* icmp4_seq has the patch's value if its key is present and its old value
\* if not; icmp4_seq is that value plus one (mod 2^16) when the patch's
\* tx_fire built a frame and that value otherwise; a patch with no
\* recognized key (the empty patch included) changes no register, handle,
\* ledger entry or output.
C4_PartialUpdate ==
  [][ (Handled /\ last_dgram'.ok) =>
        /\ \A k \in ConfigKeys \ {"icmp4_seq"} : regs'[k] = Configured(k, Doc')
        /\ regs'.icmp4_seq =
             IF "tx_fire" \in TrueFlags(Doc') /\ BuiltFrame
               THEN (Configured("icmp4_seq", Doc') + 1) % 65536
               ELSE Configured("icmp4_seq", Doc')
        /\ (DOMAIN Doc' \cap (ConfigKeys \cup TriggerKeys) = {}) => NothingChanged
    ]_vars

\* a patch carrying only tx_fire transmitted: the addresses set by an
\* earlier patch are still in place and the sequence counter has advanced
C4_Witness ==
  /\ n_dgrams >= 2
  /\ last_dgram.ok
  /\ DOMAIN Doc = {"tx_fire"}
  /\ Len(wire) >= 1
  /\ regs.tx_done
  /\ regs.eth_src_mac = MacGood
  /\ regs.icmp4_seq >= 1

-----------------------------------------------------------------------------
(* C5 *)

\* C5: idempotence.  When a datagram repeats the one handled before it and
\* its patch sets no trigger flag, serialize_registers gives the same
\* document after the second application as after the first.
C5_Idempotence ==
  [][ (Handled /\ repeated' /\ last_dgram'.ok /\ TrueFlags(Doc') = {}) =>
        serialize_registers(Cur') = serialize_registers(Cur)
    ]_vars

\* the capture parameters were applied twice in a row
C5_Witness ==
  /\ repeated
  /\ last_dgram.ok
  /\ Doc = PcapParams
  /\ regs.pcap_device = "lo"
  /\ regs.snaplen = 64

-----------------------------------------------------------------------------
(* C6 *)

\* C6: lifecycle safety.  Each driver has as many open external handles as
\* the instance holds live handles of that kind (one or none); a patch whose
\* only recognized key is a create flag, applied while that handle is live,
\* and a patch whose only recognized key is a destroy flag, applied while
\* that handle is absent, change nothing.
C6_LifecycleSafety ==
  [][ /\ lib_open' = (IF libnet_'.live THEN 1 ELSE 0)
      /\ cap_open' = (IF pcap_'.live THEN 1 ELSE 0)
      /\ (Handled /\ last_dgram'.ok) =>
           LET keys == DOMAIN Doc' \cap (ConfigKeys \cup TriggerKeys)
               flags == TrueFlags(Doc')
           IN /\ (keys = {"libnet_create"} /\ flags = keys /\ libnet_.live) => NothingChanged
              /\ (keys = {"libnet_destroy"} /\ flags = keys /\ ~libnet_.live) => NothingChanged
              /\ (keys = {"pcap_create"} /\ flags = keys /\ pcap_.live) => NothingChanged
              /\ (keys = {"pcap_destroy"} /\ flags = keys /\ ~pcap_.live) => NothingChanged
    ]_vars

\* libnet_create arrived twice in a row and the handle is live: the second
\* found the handle the first had opened
C6_Witness ==
  /\ repeated
  /\ last_dgram.ok
  /\ DOMAIN Doc = {"libnet_create"}
  /\ libnet_.live
  /\ lib_open = 1

-----------------------------------------------------------------------------
(* C7 *)

\* C7: order of apply_snapshot.  A patch with read:true is answered, before
\* anything else is sent, by one reply to the sender; the reply carries the
\* device names and handle liveness as they are after the patch's own
\* configuration and lifecycle steps, and tx_done, rx_done, rx_len and
\* rx_caplen as they were before the patch; a handle the patch creates is
\* opened on the device name the patch itself configures.
C7_ApplyOrder ==
  [][ (Handled /\ last_dgram'.ok) =>
        /\ "read" \in TrueFlags(Doc') =>
             /\ NewOut # <<>>
             /\ "belief" \notin DOMAIN NewOut[1].body
             /\ \A i \in 2..Len(NewOut) : "belief" \in DOMAIN NewOut[i].body
             /\ NewOut[1].to = last_dgram'.from
             /\ NewOut[1].body.libnet_device = Configured("libnet_device", Doc')
             /\ NewOut[1].body.pcap_device = Configured("pcap_device", Doc')
             /\ NewOut[1].body.libnet_live = libnet_'.live
             /\ NewOut[1].body.pcap_live = pcap_'.live
             /\ NewOut[1].body.tx_done = regs.tx_done
             /\ NewOut[1].body.rx_done = regs.rx_done
             /\ NewOut[1].body.rx_len = regs.rx_len
             /\ NewOut[1].body.rx_caplen = regs.rx_caplen
        /\ (~libnet_.live /\ libnet_'.live) =>
             libnet_'.device = Configured("libnet_device", Doc')
        /\ (~pcap_.live /\ pcap_'.live) =>
             /\ pcap_'.device = Configured("pcap_device", Doc')
             /\ pcap_'.snaplen = Configured("snaplen", Doc')
    ]_vars

\* the first patch configured, created the transmit handle, asked for a read
\* and fired: its reply shows the handle live and tx_done still false, while
\* the register is true after the patch
C7_Witness ==
  /\ n_dgrams = 1
  /\ last_dgram.ok
  /\ {"libnet_create", "read", "tx_fire"} \subseteq TrueFlags(Doc)
  /\ regs.tx_done
  /\ Len(net_out) = 2
  /\ "belief" \notin DOMAIN net_out[1].body
  /\ net_out[1].body.libnet_live = TRUE
  /\ net_out[1].body.tx_done = FALSE

-----------------------------------------------------------------------------
(* C8 *)

\* the step took a frame out of the capture buffer with pcap_next_ex
Captured == n_polls' > n_polls /\ Len(capbuf') < Len(capbuf)

\* C8: done-flag reset.  After a patch with tx_fire:true, tx_done is true
\* exactly if the patch transmitted a frame; after a patch with rx_fire:true,
\* rx_done is true exactly if the patch captured a frame.
C8_DoneFlagReset ==
  [][ (Handled /\ last_dgram'.ok) =>
        /\ "tx_fire" \in TrueFlags(Doc') => (regs'.tx_done <=> Transmitted)
        /\ "rx_fire" \in TrueFlags(Doc') => (regs'.rx_done <=> Captured)
    ]_vars

\* the first patch transmitted, the second fired again and did not: the
\* true flag of the first is gone
C8_Witness ==
  /\ n_dgrams = 2
  /\ last_dgram.ok
  /\ "tx_fire" \in TrueFlags(Doc)
  /\ Len(wire) = 1
  /\ ~regs.tx_done

-----------------------------------------------------------------------------
(* C9 *)

\* the text up to the first colon, and what follows that colon
RECURSIVE FirstGroup(_)
FirstGroup(s) ==
  IF s = <<>> \/ Head(s) = ":" THEN <<>> ELSE <<Head(s)>> \o FirstGroup(Tail(s))

\* the colon-separated groups of s
RECURSIVE ColonGroups(_)
ColonGroups(s) ==
  LET g == FirstGroup(s)
  IN IF Len(g) = Len(s)
       THEN <<g>>
       ELSE <<g>> \o ColonGroups(SubSeq(s, Len(g) + 2, Len(s)))

\* s is six colon-separated hex octets
SixHexOctets(s) ==
  LET g == ColonGroups(s)
  IN /\ Len(g) = 6
     /\ \A i \in 1..6 : /\ Len(g[i]) \in {1, 2}
                        /\ \A n \in 1..Len(g[i]) : g[i][n] \in HexChars

\* C9: tx_fire validation failure.  After a patch with tx_fire:true that
\* leaves the transmit handle live and the three framing flags enabled, if a
\* hardware address is not six colon-separated hex octets or a logical
\* address resolves to the null address, then tx_done is false, last_error
\* is not empty, no frame was transmitted and no belief was committed.
C9_ValidationFailure ==
  [][ ( /\ Handled /\ last_dgram'.ok
        /\ "tx_fire" \in TrueFlags(Doc')
        /\ libnet_'.live
        /\ regs'.eth_enabled /\ regs'.ip4_enabled /\ regs'.icmp4_enabled
        /\ \/ ~SixHexOctets(regs'.eth_src_mac)
           \/ ~SixHexOctets(regs'.eth_dst_mac)
           \/ name2addr4(regs'.ip4_src) = NullAddr
           \/ name2addr4(regs'.ip4_dst) = NullAddr )
      => /\ ~regs'.tx_done
         /\ regs'.last_error # ""
         /\ wire' = wire
         /\ committed_' = committed_
    ]_vars

-----------------------------------------------------------------------------
(* C10 *)

\* C10: rx_fire with nothing pending.  After a patch whose true flags are
\* rx_fire (alone or with read), applied while the capture handle is live
\* and its buffer empty, rx_done is false, rx_len, rx_caplen and last_error
\* are as before, the ledger is as before, nothing but the reply to the
\* sender was sent, and the buffer was polled once; the buffer is polled
\* only in steps that handle a patch with rx_fire or tick.
C10_RxFireNoFrame ==
  [][ /\ ( /\ Handled /\ last_dgram'.ok
           /\ "rx_fire" \in TrueFlags(Doc')
           /\ TrueFlags(Doc') \subseteq {"rx_fire", "read"}
           /\ pcap_.live
           /\ capbuf = <<>> )
         => /\ regs'.rx_done = FALSE
            /\ regs'.rx_len = regs.rx_len
            /\ regs'.rx_caplen = regs.rx_caplen
            /\ regs'.last_error = regs.last_error
            /\ committed_' = committed_
            /\ \A i \in 1..Len(NewOut) :
                 /\ "belief" \notin DOMAIN NewOut[i].body
                 /\ NewOut[i].to = last_dgram'.from
            /\ Len(NewOut) = (IF "read" \in TrueFlags(Doc') THEN 1 ELSE 0)
            /\ n_polls' = n_polls + 1
      /\ n_polls' # n_polls =>
            /\ Handled /\ last_dgram'.ok
            /\ TrueFlags(Doc') \cap {"rx_fire", "tick"} # {}
    ]_vars

\* a frame was captured earlier; the last patch fired rx again on the live
\* handle, found nothing, and left rx_done false with the old lengths
C10_Witness ==
  /\ last_dgram.ok
  /\ TrueFlags(Doc) = {"rx_fire"}
  /\ pcap_.live
  /\ n_polls >= 2
  /\ ~regs.rx_done
  /\ regs.rx_len > 0
  /\ Len(committed_) = 1

-----------------------------------------------------------------------------
(* C11 *)

\* positions of out that hold a status envelope addressed to the bus port
BusStatusIdx(out) ==
  { i \in 1..Len(out) : /\ out[i].to = Loopback(BUS_PORT)
                         /\ "status" \in DOMAIN out[i].body }

\* C11: rx_fire with a frame available.  After a patch with rx_fire:true
\* that leaves the capture handle live and found a frame pending, rx_len
\* and rx_caplen are the wire and captured length of the oldest pending
\* frame, rx_done is true, the ledger holds NET.rx_done=true, and the step
\* sent one status envelope with component NET and these lengths to the
\* bus port.
C11_RxFireFrame ==
  [][ ( /\ Handled /\ last_dgram'.ok
        /\ "rx_fire" \in TrueFlags(Doc')
        /\ pcap_'.live
        /\ capbuf # <<>> )
      => /\ regs'.rx_len = Head(capbuf).len
         /\ regs'.rx_caplen = Head(capbuf).caplen
         /\ regs'.rx_done
         /\ LedgerIdxOf(committed_', SUBJ_RX_DONE, TRUE) # {}
         /\ \E i \in BusStatusIdx(NewOut) :
              /\ NewOut[i].body.component = "NET"
              /\ NewOut[i].body.status.rx_len = Head(capbuf).len
              /\ NewOut[i].body.status.rx_caplen = Head(capbuf).caplen
    ]_vars

-----------------------------------------------------------------------------
(* C12 *)

\* the step handled a datagram of the private endpoint
OnPrivate == Handled /\ last_dgram'.to = SBA

\* the step handled a datagram of the bus endpoint
OnBus == Handled /\ last_dgram'.to = BUS_PORT

\* positions of out that hold a reply: the component sends nothing but
\* replies and belief envelopes
ReplyIdx(out) == { i \in 1..Len(out) : "belief" \notin DOMAIN out[i].body }

\* C12: reply requires a sender.  While no datagram has been received on
\* the private endpoint no reply has been sent and reply_json returns
\* false; a datagram of the bus endpoint handled in that situation, read:true
\* included, sends no reply and records no sender.
C12_ReplyRequiresSender ==
  [][ /\ ~has_sender_' => (ReplyIdx(net_out') = {} /\ ~reply_json_result(Cur'))
      /\ (OnBus /\ ~has_sender_) => (~has_sender_' /\ ReplyIdx(NewOut) = {})
    ]_vars

\* the first datagram came from the bus, asked for a read and transmitted:
\* the belief envelope was sent, the reply was not
C12_Witness ==
  /\ n_dgrams = 1
  /\ last_dgram.to = BUS_PORT
  /\ last_dgram.ok /\ ~Thrown(last_dgram)
  /\ "read" \in TrueFlags(Doc)
  /\ ~has_sender_
  /\ Len(net_out) = 1
  /\ ReplyIdx(net_out) = {}

-----------------------------------------------------------------------------
(* C13 *)

-----------------------------------------------------------------------------
(* C14 *)

\* C14: parse failure.  After a datagram, on either endpoint, whose payload
\* is not JSON, last_error holds a diagnostic, every other register, the
\* handles, the ledger and the output are as before, and the instance is
\* running.
C14_ParseFailure ==
  [][ (Handled /\ ~last_dgram'.ok) =>
        /\ regs'.last_error # ""
        /\ \A k \in DOMAIN regs \ {"last_error"} : regs'[k] = regs[k]
        /\ UNCHANGED <<libnet_, pcap_, committed_, net_out, wire, capbuf,
                       lib_open, cap_open, n_polls>>
        /\ running_' /\ ~terminated'
    ]_vars

-----------------------------------------------------------------------------
(* C15 *)

\* C15: no datagram stops the instance.  After every datagram, on either
\* endpoint, the process has not been terminated by an exception and the
\* run loop is running.
C15_NoDatagramStops ==
  [][ Handled => (~terminated' /\ running_') ]_vars

-----------------------------------------------------------------------------
(* C16 *)

\* C16: bind failure.  An instance whose private endpoint is not bound is
\* not running and has handled no datagram; an instance whose private
\* endpoint is bound and whose bus endpoint is not is running.
C16_BindFailure ==
  /\ udp_fd_ < 0 => (~running_ /\ n_dgrams = 0)
  /\ (udp_fd_ >= 0 /\ bus_fd_ < 0) => running_

-----------------------------------------------------------------------------
(* C17 *)

\* C17: no work on bus messages.  A step that handles a datagram of the bus
\* endpoint changes no register, opens and closes no driver handle,
\* transmits no frame, polls no capture buffer and commits no belief.
C17_NoWorkOnBus ==
  [][ OnBus => UNCHANGED <<regs, libnet_, pcap_, lib_open, cap_open, wire,
                           capbuf, n_polls, committed_>>
    ]_vars

-----------------------------------------------------------------------------
(* C18 *)

\* C18: end-to-end tx visibility.  A transmission leaves tx_done true; a
\* patch without tx_fire:true, whatever else it carries, and the arrival of
\* a frame leave tx_done as it was; the reply to read:true reports tx_done
\* as it was before the patch; tx_done is true, in the register and in any
\* reply, only if a frame has been transmitted.
C18_TxVisibility ==
  [][ /\ Transmitted => regs'.tx_done
      /\ (Handled /\ last_dgram'.ok) =>
           /\ "tx_fire" \notin TrueFlags(Doc') => regs'.tx_done = regs.tx_done
           /\ "read" \in TrueFlags(Doc') =>
                /\ Len(NewOut) >= 1
                /\ NewOut[1].to = last_dgram'.from
                /\ NewOut[1].body.tx_done = regs.tx_done
      /\ ~(Handled /\ last_dgram'.ok) => regs'.tx_done = regs.tx_done
      /\ regs'.tx_done => wire' # <<>>
      /\ \A i \in ReplyIdx(net_out') : net_out'[i].body.tx_done => wire' # <<>>
    ]_vars

\* a frame was transmitted, the transmit handle was destroyed, and the
\* reply to the read that followed reports tx_done true
C18_Witness ==
  /\ n_dgrams = 3
  /\ last_dgram.ok
  /\ TrueFlags(Doc) = {"read"}
  /\ ~libnet_.live
  /\ Len(wire) = 1
  /\ Len(net_out) >= 2
  /\ net_out[Len(net_out)].to = SenderA
  /\ net_out[Len(net_out)].body.libnet_live = FALSE
  /\ net_out[Len(net_out)].body.tx_done = TRUE

-----------------------------------------------------------------------------
(* C19 *)

\* the transmit handle is live and the three framing flags are enabled
\* (do_tx changes none of them, so after the step they are as do_tx found
\* them)
TxGateOpen ==
  /\ libnet_'.live
  /\ regs'.eth_enabled /\ regs'.ip4_enabled /\ regs'.icmp4_enabled

\* the machine state after the configuration and lifecycle steps of the
\* patch handled by the step
AfterLifecycle ==
  apply_lifecycle([Cur EXCEPT !.regs = apply_config(@, Doc')], Doc')

\* C19 as stated: a frame is transmitted only by a patch with tx_fire:true
\* that leaves the transmit handle live and the framing flags enabled; when
\* such a patch finds the handle absent or a flag disabled, nothing is
\* transmitted, no belief is committed, tx_done is false and last_error is
\* unchanged.
C19_GateClosedNoTrace ==
  [][ /\ Transmitted =>
           /\ Handled /\ last_dgram'.ok
           /\ "tx_fire" \in TrueFlags(Doc')
           /\ TxGateOpen
      /\ (Handled /\ last_dgram'.ok /\ "tx_fire" \in TrueFlags(Doc') /\ ~TxGateOpen) =>
           /\ ~Transmitted
           /\ committed_' = committed_
           /\ ~regs'.tx_done
           /\ regs'.last_error = regs.last_error
    ]_vars

\* C19 (amended): a frame is transmitted only by a patch with tx_fire:true
\* that leaves the transmit handle live and the framing flags enabled; when
\* such a patch finds the handle absent or a flag disabled, nothing is
\* transmitted, no NET.tx_done belief is committed or sent, tx_done is
\* false, and last_error is as the patch's own lifecycle steps left it.
C19_TxGating ==
  [][ /\ Transmitted =>
           /\ Handled /\ last_dgram'.ok
           /\ "tx_fire" \in TrueFlags(Doc')
           /\ TxGateOpen
      /\ (Handled /\ last_dgram'.ok /\ "tx_fire" \in TrueFlags(Doc') /\ ~TxGateOpen) =>
           /\ ~Transmitted
           /\ LedgerIdxOf(committed_', SUBJ_TX_DONE, TRUE)
                = LedgerIdxOf(committed_, SUBJ_TX_DONE, TRUE)
           /\ BeliefIdxOf(NewOut, SUBJ_TX_DONE, TRUE) = {}
           /\ ~regs'.tx_done
           /\ regs'.last_error = AfterLifecycle.regs.last_error
    ]_vars

\* a patch asked to create the transmit handle and to fire; the create
\* failed, so nothing was sent and last_error holds the driver's message
C19_Witness ==
  /\ last_dgram.ok
  /\ {"libnet_create", "tx_fire"} \subseteq TrueFlags(Doc)
  /\ ~libnet_.live
  /\ regs.eth_enabled /\ regs.ip4_enabled /\ regs.icmp4_enabled
  /\ regs.last_error = LibnetInitError
  /\ ~regs.tx_done
  /\ wire = <<>>

-----------------------------------------------------------------------------
(* C20 *)

\* C20: driver-failure policy.  After a patch whose create flag met a
\* device the driver cannot open, that handle is absent and last_error is
\* set; after a patch whose pcap_set_filter met a live capture handle and an
\* expression that does not compile, the handle is live with the filter it
\* had and last_error is set; after a patch whose frame was built and not
\* written, tx_done is false, no NET.tx_done belief is committed or sent and
\* last_error holds the driver's message; the instance is running.
C20_DriverFailurePolicy ==
  [][ (Handled /\ last_dgram'.ok) =>
        /\ ( /\ "libnet_create" \in TrueFlags(Doc') /\ ~libnet_.live
             /\ regs'.libnet_device \notin HostDevices )
           => (~libnet_'.live /\ lib_open' = 0 /\ regs'.last_error # "")
        /\ ( /\ "pcap_create" \in TrueFlags(Doc') /\ ~pcap_.live
             /\ regs'.pcap_device \notin HostDevices )
           => (~pcap_'.live /\ cap_open' = 0 /\ regs'.last_error # "")
        /\ ( /\ "pcap_set_filter" \in TrueFlags(Doc') /\ pcap_'.live
             /\ regs'.pcap_filter # "" /\ ~pcap_compile_ok(regs'.pcap_filter) )
           => /\ pcap_'.filter = (IF pcap_.live THEN pcap_.filter ELSE "")
              /\ regs'.last_error # ""
        /\ (BuiltFrame /\ ~Transmitted)
           => /\ ~regs'.tx_done
              /\ LedgerIdxOf(committed_', SUBJ_TX_DONE, TRUE)
                   = LedgerIdxOf(committed_, SUBJ_TX_DONE, TRUE)
              /\ BeliefIdxOf(NewOut, SUBJ_TX_DONE, TRUE) = {}
              /\ regs'.last_error = LibnetWriteError
        /\ running_' /\ ~terminated'
    ]_vars

-----------------------------------------------------------------------------
(* C21 *)

\* the filter of the capture handle before the step, a handle opened by the
\* step starting without one
FilterBefore == IF pcap_.live THEN pcap_.filter ELSE ""

\* C21: capture filter.  The filter of the live capture handle changes only
\* in a step that handles a patch with pcap_set_filter:true, and then to the
\* pcap_filter register, which compiles; such a patch that leaves the handle
\* live with a compilable expression in the register installs it; a patch
\* whose only recognized key is pcap_set_filter, applied while the handle is
\* absent, changes nothing; a handle opened by a patch without
\* pcap_set_filter has no filter, whatever the register holds.
C21_CaptureFilter ==
  [][ /\ (Handled /\ last_dgram'.ok) =>
           /\ (pcap_'.live /\ pcap_'.filter # FilterBefore) =>
                /\ "pcap_set_filter" \in TrueFlags(Doc')
                /\ pcap_'.filter = regs'.pcap_filter
                /\ pcap_compile_ok(regs'.pcap_filter)
           /\ ( /\ "pcap_set_filter" \in TrueFlags(Doc') /\ pcap_'.live
                /\ regs'.pcap_filter # "" /\ pcap_compile_ok(regs'.pcap_filter) ) =>
                pcap_'.filter = regs'.pcap_filter
           /\ ( /\ DOMAIN Doc' \cap (ConfigKeys \cup TriggerKeys) = {"pcap_set_filter"}
                /\ ~pcap_.live ) => NothingChanged
           /\ (~pcap_.live /\ pcap_'.live /\ "pcap_set_filter" \notin TrueFlags(Doc')) =>
                pcap_'.filter = ""
      /\ ~(Handled /\ last_dgram'.ok) => pcap_' = pcap_
    ]_vars

\* the register held a filter expression when the capture handle was
\* opened: the handle is live and has no filter
C21_Witness ==
  /\ last_dgram.ok
  /\ TrueFlags(Doc) = {"pcap_create"}
  /\ pcap_.live
  /\ regs.pcap_filter = "icmp"
  /\ pcap_.filter = ""

-----------------------------------------------------------------------------
(* C26 *)

\* the keys of the registers a create action reads
OpenKeys == {"libnet_device", "pcap_device", "snaplen", "promisc", "timeout_ms"}

\* the open parameters of capture handle h are those of registers r
OpenedWith(h, r) ==
  /\ h.device = r.pcap_device
  /\ h.snaplen = r.snaplen
  /\ h.promisc = r.promisc
  /\ h.timeout_ms = r.timeout_ms

\* C26: handle binding.  A handle that is live before and after a patch is
\* the same handle, bound to the same device and open parameters, whatever
\* the patch stores in libnet_device, pcap_device, snaplen, promisc or
\* timeout_ms and whether or not it repeats the create flag; the patch does
\* store those keys in the registers and a read reply names the devices of
\* the registers; a handle opened by the patch is bound to the values the
\* registers hold after the patch.
C26_HandleBinding ==
  [][ (Handled /\ last_dgram'.ok) =>
        /\ (libnet_.live /\ libnet_'.live) =>
             /\ libnet_'.device = libnet_.device
             /\ lib_open' = lib_open
        /\ (pcap_.live /\ pcap_'.live) =>
             /\ OpenedWith(pcap_', [pcap_device |-> pcap_.device,
                                    snaplen |-> pcap_.snaplen,
                                    promisc |-> pcap_.promisc,
                                    timeout_ms |-> pcap_.timeout_ms])
             /\ cap_open' = cap_open
        /\ \A k \in OpenKeys : regs'[k] = Configured(k, Doc')
        /\ \A i \in ReplyIdx(NewOut) :
             /\ NewOut[i].body.libnet_device = regs'.libnet_device
             /\ NewOut[i].body.pcap_device = regs'.pcap_device
        /\ (~libnet_.live /\ libnet_'.live) => libnet_'.device = regs'.libnet_device
        /\ (~pcap_.live /\ pcap_'.live) => OpenedWith(pcap_', regs')
    ]_vars

\* a create flag was repeated on live handles whose device and open
\* parameters differ from the registers
C26_Witness ==
  /\ last_dgram.ok
  /\ "libnet_create" \in TrueFlags(Doc)
  /\ libnet_.live
  /\ libnet_.device # regs.libnet_device
  /\ regs.libnet_device \in HostDevices
  /\ lib_open = 1

\* the capture handle is live with open parameters the registers no longer hold
C26_WitnessCapture ==
  /\ pcap_.live
  /\ pcap_.device # regs.pcap_device
  /\ pcap_.snaplen # regs.snaplen
  /\ pcap_.promisc # regs.promisc
  /\ pcap_.timeout_ms # regs.timeout_ms

-----------------------------------------------------------------------------
(* C25 *)

\* the layers of a frame, in the order their headers were built
LayersOf(frame) == [i \in 1..Len(frame) |-> frame[i].layer]

\* C25: every frame handed to the transmit driver is one echo-request
\* header with payload, one network header and one link header, and a
\* tx_fire that reaches do_tx on a handle that was live before the patch
\* finds the packet context of that handle empty.
C25_FrameBuiltAlone ==
  [][ /\ Transmitted =>
           LayersOf(wire'[Len(wire')]) = <<"icmpv4_echo", "ipv4", "ethernet">>
      /\ ( /\ Handled /\ last_dgram'.ok
           /\ "tx_fire" \in TrueFlags(Doc')
           /\ "libnet_destroy" \notin TrueFlags(Doc')
           /\ libnet_.live ) => libnet_.ctx = <<>>
    ]_vars

-----------------------------------------------------------------------------
(* C23 *)

\* patch p with rx_fire:true in place of its tick key
TickAsRxFire(p) ==
  [k \in (DOMAIN p \ {"tick"}) \cup {"rx_fire"} |->
     IF k = "rx_fire" THEN TRUE ELSE p[k]]

\* the state the step would have reached had it handled document p instead
HadItHandled(p, write_ok) ==
  poll_socket(Cur, TRUE, [last_dgram' EXCEPT !.doc = p], write_ok)

\* C23: tick is an alias of rx_fire.  A step that handles a patch with
\* tick:true and no rx_fire key leaves the registers, the ledger, the capture
\* buffer and the number of polls as the same patch with rx_fire:true in
\* place of tick would have left them.
C23_TickAlias ==
  [][ ( /\ Handled /\ last_dgram'.ok
        /\ "tick" \in TrueFlags(Doc')
        /\ "rx_fire" \notin DOMAIN Doc' ) =>
        \E write_ok \in BOOLEAN :
           /\ regs' = HadItHandled(TickAsRxFire(Doc'), write_ok).regs
           /\ committed_' = HadItHandled(TickAsRxFire(Doc'), write_ok).committed_
           /\ capbuf' = HadItHandled(TickAsRxFire(Doc'), write_ok).capbuf
           /\ n_polls' = HadItHandled(TickAsRxFire(Doc'), write_ok).n_polls
    ]_vars

-----------------------------------------------------------------------------
(* C22 *)

\* sequence q from its last element to its first
Reverse(q) == [i \in 1..Len(q) |-> q[Len(q) + 1 - i]]

\* C22: termination order.  When the instance is destroyed, the driver
\* handles that were live are released in the reverse of the order in which
\* they were acquired, and the endpoints are closed after them.
C22_TerminationOrder ==
  [][ released' # released =>
        released' = Reverse(acquired) \o <<"udp_fd_", "bus_fd_">>
    ]_vars

-----------------------------------------------------------------------------
(* C24 *)

\* the rx flags a patch carries with the value true
PollFlags(p) == TrueFlags(p) \cap {"rx_fire", "tick"}

\* C24: no background work.  A step that takes no datagram from an endpoint
\* (an arrival, a poll of an empty endpoint, the publish check) changes no
\* register, no driver handle, no ledger entry and sends nothing; a poll of
\* an empty endpoint and the publish check take no datagram; and a step that
\* takes one datagram transmits at most one frame, and only for tx_fire, and
\* polls the capture buffer at most once per rx flag of the patch.
C24_NoBackgroundWork ==
  [][ /\ ~Handled =>
           UNCHANGED <<regs, libnet_, pcap_, committed_, net_out, wire, capbuf,
                       lib_open, cap_open, acquired, n_polls,
                       has_sender_, last_sender_, running_>>
      /\ (pc = "private" /\ udp_rcvbuf = <<>>) => ~Handled
      /\ (pc = "bus" /\ bus_rcvbuf = <<>>) => ~Handled
      /\ pc = "publish" => ~Handled
      /\ n_dgrams' <= n_dgrams + 1
      /\ Len(wire') <= Len(wire) + 1
      /\ (Handled /\ last_dgram'.ok /\ ~Thrown(last_dgram')) =>
           /\ Transmitted => "tx_fire" \in TrueFlags(Doc')
           /\ n_polls' <= n_polls + Cardinality(PollFlags(Doc'))
           /\ Len(committed_') <= Len(committed_)
                 + Cardinality(TrueFlags(Doc') \cap {"tx_fire", "rx_fire", "tick"})
    ]_vars

\* a frame was transmitted for a datagram of the bus endpoint and the loop
\* has since run the publish check and polled the private endpoint, which
\* was empty: the frame and the belief are still the only ones
C24_Witness ==
  /\ pc = "bus"
  /\ last_dgram.to = BUS_PORT
  /\ "tx_fire" \in DOMAIN Doc
  /\ Len(wire) = 1
  /\ Len(committed_) = 1
  /\ Cardinality(BeliefIdx(net_out)) = 1

-----------------------------------------------------------------------------
(* C27 *)

\* the step took the oldest datagram of queue buf, which becomes buf_after
TookOldest(buf, buf_after) ==
  /\ buf # <<>>
  /\ last_dgram' = Head(buf)
  /\ buf_after = Tail(buf)

\* C27, order: the statements of the loop run in the order private poll,
\* bus poll, publish check; a step takes at most one datagram; a datagram
\* of the private endpoint is taken only by the private poll and one of
\* the bus endpoint only by the bus poll, each time the oldest queued on
\* that endpoint, the other queue being left alone; a poll of an endpoint
\* with a queued datagram takes one.
C27_DispatchOrder ==
  [][ /\ pc' # pc => pc' = NextPc(pc)
      /\ n_dgrams' <= n_dgrams + 1
      /\ Handled => pc' # pc
      /\ (Handled /\ pc = "private") =>
           /\ TookOldest(udp_rcvbuf, udp_rcvbuf')
           /\ last_dgram'.to = SBA
           /\ bus_rcvbuf' = bus_rcvbuf
      /\ (Handled /\ pc = "bus") =>
           /\ TookOldest(bus_rcvbuf, bus_rcvbuf')
           /\ last_dgram'.to = BUS_PORT
           /\ udp_rcvbuf' = udp_rcvbuf
      /\ pc = "publish" => ~Handled
      /\ (pc = "private" /\ pc' = "bus" /\ udp_rcvbuf # <<>>) => Handled
      /\ (pc = "bus" /\ pc' = "publish" /\ bus_rcvbuf # <<>>) => Handled
    ]_vars

\* C27, progress: while the instance has not terminated, a datagram queued
\* on an endpoint leads to a datagram of that endpoint being taken,
\* whatever is queued on the other endpoint.
C27_Progress ==
  \A n \in 0..MaxDatagrams :
     /\ (udp_rcvbuf # <<>> /\ n_dgrams = n)
           ~> (terminated \/ (n_dgrams > n /\ last_dgram.to = SBA))
     /\ (bus_rcvbuf # <<>> /\ n_dgrams = n)
           ~> (terminated \/ (n_dgrams > n /\ last_dgram.to = BUS_PORT))

\* C27: dispatch order and progress.
C27_DispatchOrderAndProgress == C27_DispatchOrder /\ C27_Progress

\* a datagram of the private endpoint was just taken while another one and
\* a datagram of the bus endpoint are queued: the bus poll is next
C27_Witness ==
  /\ pc = "bus"
  /\ n_dgrams = 1
  /\ last_dgram.to = SBA
  /\ udp_rcvbuf # <<>>
  /\ bus_rcvbuf # <<>>
  /\ ~terminated

====
